---- MODULE Spec2Model ----
\* Model of the Epd2in13 driver of src/src/epd2in13d/mod.rs: the driver's two
\* fields, the command/data stream each operation puts on the bus, the
\* controller's busy line, and the position of the operation in flight.
EXTENDS Integers, Sequences, FiniteSets, TLC

VARIABLES
    background_color,   \* Epd2in13.background_color
    refresh,            \* Epd2in13.refresh
    op,                 \* the operation in flight, or the last one called
    args,               \* the arguments of that call
    pre,                \* the driver's fields when that call was made
    todo,               \* the statements of that call still to run
    result,             \* "running", "ok", "err", "assert", "todo"
    log,                \* what that call has put on the bus so far
    busy,               \* the controller is busy (busy line at its busy level)
    polls,              \* samples of the busy line taken by the wait in progress
    lut,                \* the table last written to each LUT register
    vcom_dc,            \* the payload last written with VCOM-DC-Setting
    wrote_busy,         \* some byte went out while the controller was busy
    write_failed,       \* the transport failed a write of the call in flight
    failures            \* writes the transport has failed so far

vars == <<background_color, refresh, op, args, pre, todo, result, log, busy, polls,
          lut, vcom_dc, wrote_busy, write_failed, failures>>

----------------------------------------------------------------------------
\* Bounds of the model

\* frame buffers of every length within LenSlack of the expected one are tried
LenSlack == 1
\* a wait samples a busy controller at most this many times before the
\* controller has to move
MaxPolls == 2
\* update_partial_frame is tried with x, width in 0, 4, .., 4 * MaxPartDim,
\* y, height in 0 .. MaxPartDim and buffers of 0 .. MaxPartDim bytes
MaxPartDim == 2
\* a failing data_x_times gets at most this many bytes out before it fails
MaxPartial == 1
\* the transport fails at most this many writes in one run
MaxFailures == 1

----------------------------------------------------------------------------
\* Command opcodes (command.rs)

PanelSetting == 0
PowerSetting == 1
PowerOn == 4
BoosterSoftStart == 6
DeepSleep == 7
DisplayStartTransmission1 == 16
DisplayRefresh == 18
DisplayStartTransmission2 == 19
VcomLut == 32
WhiteToWhiteLut == 33
BlackToWhiteLut == 34
WhiteToBlackLut == 35
BlackToBlackLut == 36
PllControl == 48
VcomAndDataIntervalSetting == 80
ResolutionSetting == 97
GetStatus == 113
VcmDcSetting == 130

\* Panel geometry and defaults (mod.rs)
WIDTH == 104
HEIGHT == 212
DEFAULT_BACKGROUND_COLOR == "White"
IS_BUSY_LOW == FALSE

Color == {"White", "Black"}
RefreshLut == {"Full", "Quick"}
\* Option<RefreshLut>
OptRefreshLut == RefreshLut \cup {"None"}

\* crate::buffer_len: bytes of a width x height one-bit-per-pixel buffer
buffer_len(width, height) == ((width + 7) \div 8) * height

\* Color::get_byte_value
get_byte_value(color) == IF color = "White" THEN 255 ELSE 0

\* the ! operator on a u8
not_u8(b) == 255 - b

\* The waveform tables of constants.rs. Their bytes are static data; each table
\* is stood for by one value outside the byte range, distinct per table.
LUT_FULL_VCOM == <<-10>>
LUT_FULL_WW == <<-11>>
LUT_FULL_BW == <<-12>>
LUT_FULL_WB == <<-13>>
LUT_FULL_BB == <<-14>>
LUT_PART_VCOM == <<-20>>
LUT_PART_WW == <<-21>>
LUT_PART_BW == <<-22>>
LUT_PART_WB == <<-23>>
LUT_PART_BB == <<-24>>

----------------------------------------------------------------------------
\* Statements: what an operation's body is made of. Every statement is a
\* record [i, c, d]: the kind, a number and a byte sequence.

Stmt(i, c, d) == [i |-> i, c |-> c, d |-> d]

\* DisplayInterface::cmd: one write of the opcode
cmd(command) == <<Stmt("cmd", command, <<>>)>>

\* DisplayInterface::data: one write of the payload
data(bytes) == <<Stmt("data", 0, bytes)>>

\* DisplayInterface::cmd_with_data: the command write, then the data write
cmd_with_data(command, bytes) == cmd(command) \o data(bytes)

\* DisplayInterface::data_x_times: `times` writes of the one byte `val`
data_x_times(val, times) == <<Stmt("data_x_times", val, <<times>>)>>

\* DisplayInterface::reset: the reset line pulsed low for `duration` us after
\* an `initial_delay` us hold
reset(initial_delay, duration) == <<Stmt("reset", 0, <<initial_delay, duration>>)>>

\* DelayUs::delay_us
delay_us(us) == <<Stmt("delay_us", us, <<>>)>>

\* assert!(cond): panics when cond is false
assert_that(cond) == IF cond THEN <<>> ELSE <<Stmt("assert", 0, <<>>)>>

\* todo!(): panics
todo_ == <<Stmt("todo", 0, <<>>)>>

----------------------------------------------------------------------------
\* The driver (mod.rs). Each function is the sequence of its statements.

\* a call of one statement whose Result is dropped (`;` without `?`): a failed
\* write does not end the function
Discarded(i) ==
    CASE i = "cmd" -> "cmd_discard"
      [] i = "data_x_times" -> "data_x_times_discard"
      [] OTHER -> i

discard_result(stmts) == [k \in 1..Len(stmts) |-> [stmts[k] EXCEPT !.i = Discarded(@)]]

\* DisplayInterface::wait_until_idle_with_cmd: blocks until the busy line is
\* at its idle level
wait_until_idle_with_cmd(is_busy_low, status_command) ==
    <<Stmt("wait", status_command, <<>>)>>

\* wait_until_idle returning Ok at once
wait_until_idle_skipped == <<>>

\* Epd2in13::wait_until_idle: blocks on the busy line, always returns Ok
wait_until_idle == discard_result(wait_until_idle_with_cmd(IS_BUSY_LOW, GetStatus))

\* turn_on_display returning right after the settle delay
turn_on_display_no_wait ==
    cmd(DisplayRefresh)
    \o delay_us(100000)

\* Epd2in13::turn_on_display
turn_on_display ==
    cmd(DisplayRefresh)
    \o delay_us(100000)
    \o wait_until_idle

\* init without the idle-wait after Power-On
init_no_wait ==
    reset(10000, 10000)
    \o cmd_with_data(PowerSetting, <<3, 0, 43, 43, 3>>)
    \o cmd_with_data(BoosterSoftStart, <<23, 23, 23>>)
    \o cmd(PowerOn)
    \o cmd_with_data(PanelSetting, <<191, 14>>)
    \o cmd_with_data(PllControl, <<58>>)
    \o cmd_with_data(ResolutionSetting,
                     <<WIDTH % 256, (HEIGHT \div 256) % 256, HEIGHT % 256>>)
    \o cmd_with_data(VcmDcSetting, <<40>>)
    \o wait_until_idle

\* InternalWiAdditions::init
init ==
    reset(10000, 10000)
    \o cmd_with_data(PowerSetting, <<3, 0, 43, 43, 3>>)
    \o cmd_with_data(BoosterSoftStart, <<23, 23, 23>>)
    \o cmd(PowerOn)
    \o wait_until_idle
    \o cmd_with_data(PanelSetting, <<191, 14>>)
    \o cmd_with_data(PllControl, <<58>>)
    \o cmd_with_data(ResolutionSetting,
                     <<WIDTH % 256, (HEIGHT \div 256) % 256, HEIGHT % 256>>)
    \o cmd_with_data(VcmDcSetting, <<40>>)
    \o wait_until_idle

\* a resume that skips the reset pulse
wake_up_light == Tail(init)

\* WaveshareDisplay::wake_up
wake_up == init

\* a sleep that enters the controller's deep sleep
sleep_deep == cmd_with_data(DeepSleep, <<165>>)

\* WaveshareDisplay::sleep: the body is commented out
sleep == <<>>

\* set_lut sending the VCOM-DC override for every Some(_) mode
set_lut_override_any(refresh_rate) ==
    LET quick == refresh_rate = "Quick"
        vcom == IF quick THEN LUT_PART_VCOM ELSE LUT_FULL_VCOM
        ww == IF quick THEN LUT_PART_WW ELSE LUT_FULL_WW
        bw == IF quick THEN LUT_PART_BW ELSE LUT_FULL_BW
        wb == IF quick THEN LUT_PART_WB ELSE LUT_FULL_WB
        bb == IF quick THEN LUT_PART_BB ELSE LUT_FULL_BB
    IN  (IF refresh_rate # "None" THEN cmd_with_data(VcmDcSetting, <<0>>) ELSE <<>>)
        \o cmd_with_data(VcomAndDataIntervalSetting, <<183>>)
        \o cmd_with_data(VcomLut, vcom)
        \o cmd_with_data(WhiteToWhiteLut, ww)
        \o cmd_with_data(BlackToWhiteLut, bw)
        \o cmd_with_data(WhiteToBlackLut, wb)
        \o cmd_with_data(BlackToBlackLut, bb)

\* set_lut with the full-refresh white-to-black table left in the Quick tuple
set_lut_mixed(refresh_rate) ==
    LET quick == refresh_rate = "Quick"
        vcom == IF quick THEN LUT_PART_VCOM ELSE LUT_FULL_VCOM
        ww == IF quick THEN LUT_PART_WW ELSE LUT_FULL_WW
        bw == IF quick THEN LUT_PART_BW ELSE LUT_FULL_BW
        wb == LUT_FULL_WB
        bb == IF quick THEN LUT_PART_BB ELSE LUT_FULL_BB
    IN  (IF quick THEN cmd_with_data(VcmDcSetting, <<0>>) ELSE <<>>)
        \o cmd_with_data(VcomAndDataIntervalSetting, <<183>>)
        \o cmd_with_data(VcomLut, vcom)
        \o cmd_with_data(WhiteToWhiteLut, ww)
        \o cmd_with_data(BlackToWhiteLut, bw)
        \o cmd_with_data(WhiteToBlackLut, wb)
        \o cmd_with_data(BlackToBlackLut, bb)

\* WaveshareDisplay::set_lut
set_lut(refresh_rate) ==
    LET quick == refresh_rate = "Quick"
        vcom == IF quick THEN LUT_PART_VCOM ELSE LUT_FULL_VCOM
        ww == IF quick THEN LUT_PART_WW ELSE LUT_FULL_WW
        bw == IF quick THEN LUT_PART_BW ELSE LUT_FULL_BW
        wb == IF quick THEN LUT_PART_WB ELSE LUT_FULL_WB
        bb == IF quick THEN LUT_PART_BB ELSE LUT_FULL_BB
    IN  (IF quick THEN cmd_with_data(VcmDcSetting, <<0>>) ELSE <<>>)
        \o cmd_with_data(VcomAndDataIntervalSetting, <<183>>)
        \o cmd_with_data(VcomLut, vcom)
        \o cmd_with_data(WhiteToWhiteLut, ww)
        \o cmd_with_data(BlackToWhiteLut, bw)
        \o cmd_with_data(WhiteToBlackLut, wb)
        \o cmd_with_data(BlackToBlackLut, bb)

\* update_frame without its length assertion
update_frame_unchecked(buffer) == todo_

\* WaveshareDisplay::update_frame: the length assertion, then todo!()
update_frame(buffer) ==
    assert_that(Len(buffer) = buffer_len(WIDTH, HEIGHT))
    \o todo_

\* update_partial_frame without its Refresh Mode assertion
update_partial_frame_any_mode(self_refresh, buffer, x, y, width, height) ==
    assert_that((width * height) \div 8 = Len(buffer))

\* WaveshareDisplay::update_partial_frame: two assertions, the rest is
\* commented out. width * height is a u32 product; it does not overflow for
\* the inputs tried here.
update_partial_frame(self_refresh, buffer, x, y, width, height) ==
    assert_that((width * height) \div 8 = Len(buffer))
    \o assert_that(self_refresh = "Full")

\* WaveshareDisplay::display_frame: todo!()
display_frame == todo_

\* update_and_display_frame without the LUT load
update_and_display_frame_no_lut(self_background_color, buffer) ==
    LET color == get_byte_value(self_background_color)
        BUF_LEN == buffer_len(WIDTH, HEIGHT)
    IN  cmd(DisplayStartTransmission1)
        \o data_x_times(color, BUF_LEN)
        \o cmd_with_data(DisplayStartTransmission2, buffer)
        \o turn_on_display

\* update_and_display_frame loading the buffer into both planes (the
\* commented-out Display-Start-Transmission-1 line)
update_and_display_frame_both(self_background_color, buffer) ==
    LET color == get_byte_value(self_background_color)
        BUF_LEN == buffer_len(WIDTH, HEIGHT)
    IN  cmd_with_data(DisplayStartTransmission1, buffer)
        \o cmd_with_data(DisplayStartTransmission2, buffer)
        \o set_lut("None")
        \o turn_on_display

\* WaveshareDisplay::update_and_display_frame
update_and_display_frame(self_background_color, buffer) ==
    LET color == get_byte_value(self_background_color)
        BUF_LEN == buffer_len(WIDTH, HEIGHT)
    IN  cmd(DisplayStartTransmission1)
        \o data_x_times(color, BUF_LEN)
        \o cmd_with_data(DisplayStartTransmission2, buffer)
        \o set_lut("None")
        \o turn_on_display

\* clear_frame with the ? missing after its first command
clear_frame_unchecked(self_background_color) ==
    LET color == get_byte_value(self_background_color)
        BUF_LEN == buffer_len(WIDTH, HEIGHT)
    IN  discard_result(cmd(DisplayStartTransmission1))
        \o data_x_times(color, BUF_LEN)
        \o cmd(DisplayStartTransmission2)
        \o data_x_times(not_u8(color), BUF_LEN)
        \o set_lut("None")
        \o turn_on_display

\* clear_frame filling the second plane with the color itself
clear_frame_same(self_background_color) ==
    LET color == get_byte_value(self_background_color)
        BUF_LEN == buffer_len(WIDTH, HEIGHT)
    IN  cmd(DisplayStartTransmission1)
        \o data_x_times(color, BUF_LEN)
        \o cmd(DisplayStartTransmission2)
        \o data_x_times(color, BUF_LEN)
        \o set_lut("None")
        \o turn_on_display

\* WaveshareDisplay::clear_frame
clear_frame(self_background_color) ==
    LET color == get_byte_value(self_background_color)
        BUF_LEN == buffer_len(WIDTH, HEIGHT)
    IN  cmd(DisplayStartTransmission1)
        \o data_x_times(color, BUF_LEN)
        \o cmd(DisplayStartTransmission2)
        \o data_x_times(not_u8(color), BUF_LEN)
        \o set_lut("None")
        \o turn_on_display

----------------------------------------------------------------------------
\* Inputs

Fill(n, b) == [i \in 1..n |-> b]

\* the test pattern of update_and_display_frame's commented-out lines
Ramp(n) == [i \in 1..n |-> (i - 1) % 256]

ExpectedLen == buffer_len(WIDTH, HEIGHT)

FrameBuffers ==
    {Fill(n, 0) : n \in ({0} \cup ((ExpectedLen - LenSlack)..(ExpectedLen + LenSlack)))}
    \cup {Fill(ExpectedLen, 255), Ramp(ExpectedLen)}

PartBuffers == {Fill(n, 170) : n \in 0..MaxPartDim}
PartX == {4 * k : k \in 0..MaxPartDim}
PartY == 0..MaxPartDim

NoArgs ==
    [buffer |-> <<>>, x |-> 0, y |-> 0, width |-> 0, height |-> 0,
     refresh_rate |-> "None", color |-> "White"]

----------------------------------------------------------------------------
\* The bus log. Every entry is a record [k, c, d]: a command with the payload
\* that followed it, a reset pulse, a delay, or a completed idle-wait.

Ev(k, c, d) == [k |-> k, c |-> c, d |-> d]

\* data bytes join the payload of the command they follow
AppendData(l, bytes) ==
    IF Len(bytes) = 0 THEN l
    ELSE IF Len(l) > 0 /\ l[Len(l)].k = "cmd"
         THEN [l EXCEPT ![Len(l)].d = @ \o bytes]
         ELSE Append(l, Ev("data", 0, bytes))

\* the controller starts an internal operation on these commands
StartsWork(command) == command \in {PowerOn, DisplayRefresh}

\* the controller's five LUT registers
LutRegisters == {VcomLut, WhiteToWhiteLut, BlackToWhiteLut, WhiteToBlackLut, BlackToBlackLut}

NoTables == [r \in LutRegisters |-> <<>>]

\* what the registers hold after the write `bytes` that follows the log l
LutAfter(l, bytes, regs) ==
    IF Len(l) > 0 /\ l[Len(l)].k = "cmd" /\ l[Len(l)].c \in LutRegisters
    THEN [regs EXCEPT ![l[Len(l)].c] = l[Len(l)].d \o bytes]
    ELSE regs

VcomDcAfter(l, bytes, payload) ==
    IF Len(l) > 0 /\ l[Len(l)].k = "cmd" /\ l[Len(l)].c = VcmDcSetting
    THEN l[Len(l)].d \o bytes
    ELSE payload

----------------------------------------------------------------------------
\* The state machine

\* a constructor that starts the driver in Quick mode
Init_Quick ==
    /\ background_color = DEFAULT_BACKGROUND_COLOR
    /\ refresh = "Quick"
    /\ op = "new"
    /\ args = NoArgs
    /\ pre = [refresh |-> "Quick", background_color |-> DEFAULT_BACKGROUND_COLOR]
    /\ todo = init
    /\ result = "running"
    /\ log = <<>>
    /\ busy = FALSE
    /\ polls = 0
    /\ lut = NoTables
    /\ vcom_dc = <<>>
    /\ wrote_busy = FALSE
    /\ write_failed = FALSE
    /\ failures = 0

\* WaveshareDisplay::new: the struct is built and init() is running
Init ==
    /\ background_color = DEFAULT_BACKGROUND_COLOR
    /\ refresh = "Full"
    /\ op = "new"
    /\ args = NoArgs
    /\ pre = [refresh |-> "Full", background_color |-> DEFAULT_BACKGROUND_COLOR]
    /\ todo = init
    /\ result = "running"
    /\ log = <<>>
    /\ busy = FALSE
    /\ polls = 0
    /\ lut = NoTables
    /\ vcom_dc = <<>>
    /\ wrote_busy = FALSE
    /\ write_failed = FALSE
    /\ failures = 0

\* a driver exists and no call is in flight: a panic ends the program, and a
\* failed new() returns no driver
Callable ==
    /\ result \in {"ok", "err"}
    /\ ~(op = "new" /\ result = "err")

Finished(rest) == IF Len(rest) = 0 THEN "ok" ELSE "running"

Call(name, a, body) ==
    /\ Callable
    /\ op' = name
    /\ args' = a
    /\ pre' = [refresh |-> refresh, background_color |-> background_color]
    /\ todo' = body
    /\ result' = Finished(body)
    /\ log' = <<>>
    /\ polls' = 0
    /\ write_failed' = FALSE
    /\ UNCHANGED <<background_color, refresh, busy, lut, vcom_dc, wrote_busy, failures>>

Call_wake_up == Call("wake_up", NoArgs, wake_up)

Call_sleep == Call("sleep", NoArgs, sleep)

Call_update_frame ==
    \E buffer \in FrameBuffers :
        Call("update_frame", [NoArgs EXCEPT !.buffer = buffer], update_frame(buffer))

Call_update_partial_frame ==
    \E buffer \in PartBuffers, x \in PartX, y \in PartY, width \in PartX, height \in PartY :
        Call("update_partial_frame",
             [NoArgs EXCEPT !.buffer = buffer, !.x = x, !.y = y,
                            !.width = width, !.height = height],
             update_partial_frame(refresh, buffer, x, y, width, height))

Call_display_frame == Call("display_frame", NoArgs, display_frame)

Call_update_and_display_frame ==
    \E buffer \in FrameBuffers :
        Call("update_and_display_frame", [NoArgs EXCEPT !.buffer = buffer],
             update_and_display_frame(background_color, buffer))

Call_clear_frame == Call("clear_frame", NoArgs, clear_frame(background_color))

Call_set_lut ==
    \E refresh_rate \in OptRefreshLut :
        Call("set_lut", [NoArgs EXCEPT !.refresh_rate = refresh_rate],
             set_lut(refresh_rate))

Call_wait_until_idle == Call("wait_until_idle", NoArgs, wait_until_idle)

\* WaveshareDisplay::set_background_color
Call_set_background_color ==
    \E color \in Color :
        /\ Callable
        /\ background_color' = color
        /\ op' = "set_background_color"
        /\ args' = [NoArgs EXCEPT !.color = color]
        /\ pre' = [refresh |-> refresh, background_color |-> background_color]
        /\ todo' = <<>>
        /\ result' = "ok"
        /\ log' = <<>>
        /\ polls' = 0
        /\ write_failed' = FALSE
        /\ UNCHANGED <<refresh, busy, lut, vcom_dc, wrote_busy, failures>>

Running == result = "running" /\ Len(todo) > 0

IsWrite(s) == s.i \in {"cmd", "data", "data_x_times", "cmd_discard", "data_x_times_discard"}

IsCmd(s) == s.i \in {"cmd", "cmd_discard"}

IsRepeat(s) == s.i \in {"data_x_times", "data_x_times_discard"}

IsDiscarded(s) == s.i \in {"cmd_discard", "data_x_times_discard"}

\* the transport accepts the write at the head of todo
SpiWriteOk ==
    /\ Running
    /\ IsWrite(todo[1])
    /\ LET s == todo[1]
       IN  /\ log' = CASE IsCmd(s) -> Append(log, Ev("cmd", s.c, <<>>))
                       [] s.i = "data" -> AppendData(log, s.d)
                       [] IsRepeat(s) -> AppendData(log, Fill(s.d[1], s.c))
           /\ busy' = IF IsCmd(s) /\ StartsWork(s.c) THEN TRUE ELSE busy
           /\ lut' = IF s.i = "data" THEN LutAfter(log, s.d, lut) ELSE lut
           /\ vcom_dc' = IF s.i = "data" THEN VcomDcAfter(log, s.d, vcom_dc) ELSE vcom_dc
    /\ wrote_busy' = (wrote_busy \/ busy)
    /\ todo' = Tail(todo)
    /\ result' = Finished(Tail(todo))
    /\ UNCHANGED <<background_color, refresh, op, args, pre, polls, write_failed, failures>>

\* the transport fails the write at the head of todo: the ? operator returns
\* the error. A data_x_times may have got some of its bytes out already.
SpiWriteErr ==
    /\ Running
    /\ IsWrite(todo[1])
    /\ failures < MaxFailures
    /\ failures' = failures + 1
    /\ LET s == todo[1]
       IN  /\ IF IsRepeat(s)
              THEN \E k \in 0..MaxPartial :
                       /\ k < s.d[1]
                       /\ log' = AppendData(log, Fill(k, s.c))
                       /\ wrote_busy' = (wrote_busy \/ (busy /\ k > 0))
              ELSE log' = log /\ wrote_busy' = wrote_busy
           /\ IF IsDiscarded(s)
              THEN todo' = Tail(todo) /\ result' = Finished(Tail(todo))
              ELSE todo' = <<>> /\ result' = "err"
    /\ write_failed' = TRUE
    /\ UNCHANGED <<background_color, refresh, op, args, pre, busy, polls, lut, vcom_dc>>

\* DisplayInterface::reset
HwReset ==
    /\ Running
    /\ todo[1].i = "reset"
    /\ log' = Append(log, Ev("reset", 0, todo[1].d))
    /\ todo' = Tail(todo)
    /\ result' = Finished(Tail(todo))
    /\ UNCHANGED <<background_color, refresh, op, args, pre, busy, polls,
                   lut, vcom_dc, wrote_busy, write_failed, failures>>

\* delay.delay_us
Delay ==
    /\ Running
    /\ todo[1].i = "delay_us"
    /\ log' = Append(log, Ev("delay", todo[1].c, <<>>))
    /\ todo' = Tail(todo)
    /\ result' = Finished(Tail(todo))
    /\ UNCHANGED <<background_color, refresh, op, args, pre, busy, polls,
                   lut, vcom_dc, wrote_busy, write_failed, failures>>

\* wait_until_idle samples the busy line and finds the controller busy
WaitBusy ==
    /\ Running
    /\ todo[1].i = "wait"
    /\ busy
    /\ polls < MaxPolls
    /\ polls' = polls + 1
    /\ UNCHANGED <<background_color, refresh, op, args, pre, todo, result, log, busy,
                   lut, vcom_dc, wrote_busy, write_failed, failures>>

\* wait_until_idle samples the busy line, finds the controller idle, returns
WaitIdle ==
    /\ Running
    /\ todo[1].i = "wait"
    /\ ~busy
    /\ log' = Append(log, Ev("idle", 0, <<>>))
    /\ polls' = 0
    /\ todo' = Tail(todo)
    /\ result' = Finished(Tail(todo))
    /\ UNCHANGED <<background_color, refresh, op, args, pre, busy,
                   lut, vcom_dc, wrote_busy, write_failed, failures>>

\* a failed assert! or a todo! panics
Panic ==
    /\ Running
    /\ todo[1].i \in {"assert", "todo"}
    /\ result' = todo[1].i
    /\ todo' = <<>>
    /\ UNCHANGED <<background_color, refresh, op, args, pre, log, busy, polls,
                   lut, vcom_dc, wrote_busy, write_failed, failures>>

\* the controller finishes its internal operation
ControllerIdle ==
    /\ busy
    /\ busy' = FALSE
    /\ UNCHANGED <<background_color, refresh, op, args, pre, todo, result, log, polls,
                   lut, vcom_dc, wrote_busy, write_failed, failures>>

Next ==
    \/ Call_wake_up
    \/ Call_sleep
    \/ Call_update_frame
    \/ Call_update_partial_frame
    \/ Call_display_frame
    \/ Call_update_and_display_frame
    \/ Call_clear_frame
    \/ Call_set_lut
    \/ Call_wait_until_idle
    \/ Call_set_background_color
    \/ SpiWriteOk
    \/ SpiWriteErr
    \/ HwReset
    \/ Delay
    \/ WaitBusy
    \/ WaitIdle
    \/ Panic
    \/ ControllerIdle

Spec == Init /\ [][Next]_vars

TypeOK ==
    /\ background_color \in Color
    /\ refresh \in RefreshLut
    /\ result \in {"running", "ok", "err", "assert", "todo"}
    /\ busy \in BOOLEAN
    /\ polls \in 0..MaxPolls

\* The driver taken as any value of its type, with no call in flight: the
\* operations as functions of the fields they read.
InitAnyDriver ==
    /\ background_color \in Color
    /\ refresh \in RefreshLut
    /\ op = "none"
    /\ args = NoArgs
    /\ pre = [refresh |-> refresh, background_color |-> background_color]
    /\ todo = <<>>
    /\ result = "ok"
    /\ log = <<>>
    /\ busy \in BOOLEAN
    /\ polls = 0
    /\ lut = NoTables
    /\ vcom_dc = <<>>
    /\ wrote_busy = FALSE
    /\ write_failed = FALSE
    /\ failures = 0

\* update_partial_frame applied to such a driver
NextPartialFrame ==
    \/ Call_update_partial_frame
    \/ Call_set_background_color
    \/ Panic

SpecAnyDriver == InitAnyDriver /\ [][NextPartialFrame]_vars

\* the driver is single-threaded and blocking: a poll that finds the line idle
\* returns; and the controller of the busy protocol finishes what it started
SpecFair == Init /\ [][Next]_vars /\ WF_vars(WaitIdle) /\ WF_vars(ControllerIdle)

----------------------------------------------------------------------------
\* Reading the log

\* the log without its delays: commands with payloads, resets, idle-waits
Transcript(l) == SelectSeq(l, LAMBDA e : e.k # "delay")

\* kind and opcode of every entry
Order(l) == [i \in 1..Len(l) |-> <<l[i].k, l[i].c>>]

\* kind, opcode and payload length of every entry
Shape(l) == [i \in 1..Len(l) |-> <<l[i].k, l[i].c, Len(l[i].d)>>]

IsPrefix(s, t) == Len(s) <= Len(t) /\ \A i \in 1..Len(s) : s[i] = t[i]

InitRuns == op \in {"new", "wake_up"}

\* what a body puts on the bus and how it ends when every write is accepted
\* and every wait finds the controller idle
RECURSIVE RunAll(_, _)
RunAll(stmts, l) ==
    IF Len(stmts) = 0 THEN [result |-> "ok", log |-> l]
    ELSE LET s == stmts[1]
             rest == Tail(stmts)
         IN  CASE s.i \in {"assert", "todo"} -> [result |-> s.i, log |-> l]
               [] IsCmd(s) -> RunAll(rest, Append(l, Ev("cmd", s.c, <<>>)))
               [] s.i = "data" -> RunAll(rest, AppendData(l, s.d))
               [] IsRepeat(s) -> RunAll(rest, AppendData(l, Fill(s.d[1], s.c)))
               [] s.i = "reset" -> RunAll(rest, Append(l, Ev("reset", 0, s.d)))
               [] s.i = "delay_us" -> RunAll(rest, Append(l, Ev("delay", s.c, <<>>)))
               [] s.i = "wait" -> RunAll(rest, Append(l, Ev("idle", 0, <<>>)))

\* the two table families of the LUT Table Store, by register
FullTables ==
    [r \in LutRegisters |->
        CASE r = VcomLut -> LUT_FULL_VCOM
          [] r = WhiteToWhiteLut -> LUT_FULL_WW
          [] r = BlackToWhiteLut -> LUT_FULL_BW
          [] r = WhiteToBlackLut -> LUT_FULL_WB
          [] r = BlackToBlackLut -> LUT_FULL_BB]

QuickTables ==
    [r \in LutRegisters |->
        CASE r = VcomLut -> LUT_PART_VCOM
          [] r = WhiteToWhiteLut -> LUT_PART_WW
          [] r = BlackToWhiteLut -> LUT_PART_BW
          [] r = WhiteToBlackLut -> LUT_PART_WB
          [] r = BlackToBlackLut -> LUT_PART_BB]

\* the family the controller holds, "none" when it holds no whole family
LoadedFamily ==
    IF lut = FullTables THEN "Full"
    ELSE IF lut = QuickTables THEN "Quick"
    ELSE "none"

\* the body of the call in flight
BodyOf ==
    CASE op \in {"new", "wake_up"} -> init
      [] op = "set_lut" -> set_lut(args.refresh_rate)
      [] op = "clear_frame" -> clear_frame(pre.background_color)
      [] op = "update_and_display_frame" ->
            update_and_display_frame(pre.background_color, args.buffer)

\* l stops somewhere inside full: the same entries in the same order, the
\* last payload possibly cut short
StopsInside(l, full) ==
    /\ Len(l) <= Len(full)
    /\ l # full
    /\ \A i \in 1..Len(l) :
        /\ l[i].k = full[i].k
        /\ l[i].c = full[i].c
        /\ IsPrefix(l[i].d, full[i].d)

\* the call in flight stands in the polling loop
AtWait == Running /\ todo[1].i = "wait"

HasCmd(l, command) == \E i \in 1..Len(l) : l[i].k = "cmd" /\ l[i].c = command

FieldsUnchanged ==
    /\ refresh = pre.refresh
    /\ background_color = pre.background_color

----------------------------------------------------------------------------
\* C1: init() emits, in this order and with nothing in between: the reset
\* pulse, Power-Setting with 5 bytes, Booster-Soft-Start with 3 bytes, Power-On
\* with none, an idle-wait, Panel-Setting with 2 bytes, PLL-Control with 1
\* byte, Resolution-Setting with [104, 0, 212], VCOM-DC-Setting with 1 byte,
\* and a last idle-wait. While init runs the log is a prefix of that order.
C1_InitShape ==
    << <<"reset", 0, 2>>,
       <<"cmd", PowerSetting, 5>>,
       <<"cmd", BoosterSoftStart, 3>>,
       <<"cmd", PowerOn, 0>>,
       <<"idle", 0, 0>>,
       <<"cmd", PanelSetting, 2>>,
       <<"cmd", PllControl, 1>>,
       <<"cmd", ResolutionSetting, 3>>,
       <<"cmd", VcmDcSetting, 1>>,
       <<"idle", 0, 0>> >>

C1_InitOrder ==
    InitRuns =>
        /\ IsPrefix(Order(log), [i \in 1..Len(C1_InitShape) |->
                                    <<C1_InitShape[i][1], C1_InitShape[i][2]>>])
        /\ result = "ok" =>
            /\ Shape(log) = C1_InitShape
            /\ log[8].d = <<104, 0, 212>>

C1_Witness == op = "wake_up" /\ result = "ok" /\ Len(log) = 10

\* C2: the expected buffer length of the 104x212 panel is 2756, and
\* update_frame with a buffer of any other length fails its assertion with
\* nothing written to the bus and both fields as they were.
C2_UpdateFrameRejects ==
    /\ buffer_len(WIDTH, HEIGHT) = 2756
    /\ (op = "update_frame" /\ Len(args.buffer) # 2756) =>
        /\ result \in {"running", "assert"}
        /\ log = <<>>
        /\ FieldsUnchanged

C2_Witness ==
    /\ op = "update_frame"
    /\ Len(args.buffer) = 2755
    /\ result = "assert"

\* C3: update_frame with a buffer of exactly 2756 bytes completes normally,
\* having set Refresh Mode to Full and sent Display-Start-Transmission-1 with
\* the background color's byte 2756 times, then Display-Start-Transmission-2
\* with the caller's buffer, and no Display-Refresh.
C3_UpdateFrameCompletes ==
    (op = "update_frame" /\ Len(args.buffer) = 2756 /\ result # "running") =>
        /\ result = "ok"
        /\ refresh = "Full"
        /\ log = << Ev("cmd", DisplayStartTransmission1,
                       Fill(2756, get_byte_value(pre.background_color))),
                    Ev("cmd", DisplayStartTransmission2, args.buffer) >>

\* C4: after a successful update_frame Refresh Mode reads Full, and after a
\* successful update_partial_frame it reads Quick, whatever it was before.
C4_ModeAfterUpdate ==
    /\ (op = "update_frame" /\ result = "ok") => refresh = "Full"
    /\ (op = "update_partial_frame" /\ result = "ok") => refresh = "Quick"

\* C5: update_partial_frame does not complete normally, and sends nothing,
\* when x is not a multiple of 8, or width is not a multiple of 8, or the
\* buffer length differs from width * height / 8.
C5_PartialRejects ==
    (/\ op = "update_partial_frame"
     /\ \/ args.x % 8 # 0
        \/ args.width % 8 # 0
        \/ Len(args.buffer) # (args.width * args.height) \div 8) =>
        /\ result \in {"running", "assert"}
        /\ log = <<>>

\* C6: update_partial_frame called while Refresh Mode is Quick panics: it
\* never returns a result and sends no bytes.
C6_PartialPanicsInQuick ==
    (op = "update_partial_frame" /\ pre.refresh = "Quick") =>
        /\ result \in {"running", "assert"}
        /\ log = <<>>

\* the call whose arguments pass the length assertion, so that the Refresh
\* Mode assertion is the one that stops it
C6_Witness ==
    /\ op = "update_partial_frame"
    /\ pre.refresh = "Quick"
    /\ args.width = 8
    /\ args.height = 2
    /\ Len(args.buffer) = 2
    /\ result = "assert"

\* C7: set_lut(Quick) emits VCOM-DC-Setting with payload [0x00] before the
\* VCOM LUT write; set_lut(Full) and set_lut(None) emit no VCOM-DC-Setting.
C7_Positions(command) == {i \in 1..Len(log) : log[i].k = "cmd" /\ log[i].c = command}

C7_VcomDcOverride ==
    op = "set_lut" =>
        IF args.refresh_rate = "Quick"
        THEN /\ \A j \in C7_Positions(VcomLut) :
                    \E i \in 1..(j - 1) : log[i] = Ev("cmd", VcmDcSetting, <<0>>)
             /\ result = "ok" =>
                    /\ Cardinality(C7_Positions(VcmDcSetting)) = 1
                    /\ Cardinality(C7_Positions(VcomLut)) = 1
        ELSE C7_Positions(VcmDcSetting) = {}

C7_Witness ==
    /\ op = "set_lut"
    /\ args.refresh_rate = "Quick"
    /\ result = "ok"

\* C8: every set_lut call writes VCOM-and-data-interval (payload 0xb7), the
\* VCOM LUT, the white-to-white, black-to-white, white-to-black and
\* black-to-black LUTs, in this order and once each, the five tables from one
\* family: the full-refresh one for Full and None, the partial-refresh one
\* for Quick.
C8_FullLoad ==
    << Ev("cmd", VcomAndDataIntervalSetting, <<183>>),
       Ev("cmd", VcomLut, LUT_FULL_VCOM),
       Ev("cmd", WhiteToWhiteLut, LUT_FULL_WW),
       Ev("cmd", BlackToWhiteLut, LUT_FULL_BW),
       Ev("cmd", WhiteToBlackLut, LUT_FULL_WB),
       Ev("cmd", BlackToBlackLut, LUT_FULL_BB) >>

C8_QuickLoad ==
    << Ev("cmd", VcomAndDataIntervalSetting, <<183>>),
       Ev("cmd", VcomLut, LUT_PART_VCOM),
       Ev("cmd", WhiteToWhiteLut, LUT_PART_WW),
       Ev("cmd", BlackToWhiteLut, LUT_PART_BW),
       Ev("cmd", WhiteToBlackLut, LUT_PART_WB),
       Ev("cmd", BlackToBlackLut, LUT_PART_BB) >>

C8_LutOrder ==
    (op = "set_lut" /\ result = "ok") =>
        SelectSeq(log, LAMBDA e : e.c # VcmDcSetting)
            = IF args.refresh_rate = "Quick" THEN C8_QuickLoad ELSE C8_FullLoad

C8_Witness ==
    /\ op = "set_lut"
    /\ args.refresh_rate = "Quick"
    /\ result = "ok"
    /\ Len(log) = 7

\* C9: for either background color, clear_frame emits exactly
\* Display-Start-Transmission-1 with the color's byte 2756 times,
\* Display-Start-Transmission-2 with the complement of that byte 2756 times,
\* the full-refresh LUT load, Display-Refresh and an idle-wait.
C9_ClearFrame ==
    (op = "clear_frame" /\ result = "ok") =>
        LET b == get_byte_value(pre.background_color)
        IN  Transcript(log) =
                << Ev("cmd", DisplayStartTransmission1, Fill(2756, b)),
                   Ev("cmd", DisplayStartTransmission2, Fill(2756, 255 - b)) >>
                \o C8_FullLoad
                \o << Ev("cmd", DisplayRefresh, <<>>), Ev("idle", 0, <<>>) >>

C9_Witness ==
    /\ op = "clear_frame"
    /\ result = "ok"
    /\ pre.background_color = "Black"

\* C10: update_and_display_frame with a 2756-byte buffer emits exactly
\* Display-Start-Transmission-1 with the background color's byte 2756 times,
\* Display-Start-Transmission-2 with the buffer's bytes, the full-refresh LUT
\* load, Display-Refresh and an idle-wait.
C10_UpdateAndDisplay ==
    (op = "update_and_display_frame" /\ Len(args.buffer) = 2756 /\ result = "ok") =>
        Transcript(log) =
            << Ev("cmd", DisplayStartTransmission1,
                  Fill(2756, get_byte_value(pre.background_color))),
               Ev("cmd", DisplayStartTransmission2, args.buffer) >>
            \o C8_FullLoad
            \o << Ev("cmd", DisplayRefresh, <<>>), Ev("idle", 0, <<>>) >>

C10_Witness ==
    /\ op = "update_and_display_frame"
    /\ args.buffer = Ramp(2756)
    /\ result = "ok"

\* C11: update_and_display_frame(buffer) is update_frame(buffer) followed by
\* display_frame(): both paths end the same way with the same bytes on the
\* bus and the same Refresh Mode, and a buffer whose length is not 2756 is
\* rejected before any byte is sent.
C11_Composition ==
    op = "update_and_display_frame" =>
        /\ Len(args.buffer) # 2756 =>
            /\ log = <<>>
            /\ result \in {"running", "assert"}
        /\ result \in {"ok", "assert", "todo"} =>
            LET both == RunAll(update_frame(args.buffer) \o display_frame, <<>>)
            IN  /\ result = both.result
                /\ log = both.log
                /\ refresh = pre.refresh

\* C12: display_frame() completes normally, having loaded the LUT family of
\* the current Refresh Mode, sent Display-Refresh, waited the settle delay
\* and then waited for the controller to be idle.
C12_DisplayFrame ==
    (op = "display_frame" /\ result \in {"ok", "assert", "todo"}) =>
        /\ result = "ok"
        /\ SelectSeq(log, LAMBDA e : e.c # VcmDcSetting)
            = (IF pre.refresh = "Quick" THEN C8_QuickLoad ELSE C8_FullLoad)
              \o << Ev("cmd", DisplayRefresh, <<>>),
                    Ev("delay", 100000, <<>>),
                    Ev("idle", 0, <<>>) >>

\* C13: whenever Display-Refresh is issued, the LUT family last loaded into
\* the controller is the family of the driver's Refresh Mode.
C13_LutMatchesMode ==
    HasCmd(log, DisplayRefresh) => LoadedFamily = refresh

\* a refresh issued after an explicit set_lut(Quick) had left its tables and
\* its VCOM-DC override in the controller
C13_Witness ==
    /\ op = "clear_frame"
    /\ HasCmd(log, DisplayRefresh)
    /\ vcom_dc = <<0>>

\* C14: with a controller that turns busy on Power-On and Display-Refresh and
\* returns to idle on its own, no byte goes out while it is busy, and an
\* operation that issued one of the two does not return before it is idle.
C14_NoWriteWhileBusy ==
    /\ ~wrote_busy
    /\ (result = "ok" /\ (HasCmd(log, PowerOn) \/ HasCmd(log, DisplayRefresh))) => ~busy

C14_Witness ==
    /\ Running
    /\ todo[1].i = "wait"
    /\ HasCmd(log, DisplayRefresh)
    /\ busy
    /\ polls >= 1

\* C15: when a write fails in init, set_lut, clear_frame or
\* update_and_display_frame, the operation is over with that error: nothing
\* is left to run, the bus shows the operation's sequence up to the failed
\* write and no further, and no Display-Refresh went out.
C15_FailureStops ==
    (op \in {"new", "wake_up", "set_lut", "clear_frame", "update_and_display_frame"}
     /\ write_failed) =>
        /\ result = "err"
        /\ Len(todo) = 0
        /\ ~HasCmd(log, DisplayRefresh)
        /\ StopsInside(log, RunAll(BodyOf, <<>>).log)

C15_Witness ==
    /\ op = "clear_frame"
    /\ write_failed
    /\ result = "err"
    /\ Len(log) > 2

C17_SleepInert ==
    op = "sleep" =>
        /\ result = "ok"
        /\ log = <<>>
        /\ todo = <<>>
        /\ polls = 0
        /\ ~write_failed
        /\ FieldsUnchanged

\* sleep on a driver whose color and controller registers are no longer the
\* ones new() left
C17_Witness ==
    /\ op = "sleep"
    /\ result = "ok"
    /\ background_color = "Black"
    /\ vcom_dc = <<0>>

\* C18: wake_up() puts on the bus what init() does, reset, commands, payloads
\* and waits alike, ends as init() ends, and leaves Refresh Mode and
\* background color alone.
C18_WakeUpIsInit ==
    op = "wake_up" =>
        LET whole == RunAll(init, <<>>).log
        IN  /\ FieldsUnchanged
            /\ result \in {"running", "ok", "err"}
            /\ result = "ok" => log = whole
            /\ result # "ok" => StopsInside(log, whole)
            /\ result = "err" <=> write_failed

C18_Witness ==
    /\ op = "wake_up"
    /\ result = "ok"
    /\ pre.background_color = "Black"
    /\ vcom_dc = <<40>>
    /\ LoadedFamily = "Quick"

\* C19: the driver starts in Refresh Mode Full; set_lut, clear_frame,
\* update_and_display_frame, sleep, wake_up and set_background_color leave the
\* mode as it was; set_lut(Quick) loads the Quick family all the same.
C19_ModeKept ==
    /\ op = "new" => refresh = "Full"
    /\ op \in {"set_lut", "clear_frame", "update_and_display_frame", "sleep",
               "wake_up", "set_background_color"} => refresh = pre.refresh
    /\ (op = "set_lut" /\ args.refresh_rate = "Quick" /\ result = "ok") =>
            LoadedFamily = "Quick"

C19_Witness ==
    /\ op = "set_lut"
    /\ args.refresh_rate = "Quick"
    /\ result = "ok"
    /\ LoadedFamily = "Quick"
    /\ refresh = "Full"

\* C20: whenever Display-Refresh is issued with the Full family loaded, the
\* last VCOM-DC-Setting payload the controller received is [0x28].
C20_VcomDcWithFull ==
    (HasCmd(log, DisplayRefresh) /\ LoadedFamily = "Full") => vcom_dc = <<40>>

====
